---------------------------- MODULE Spec2Model ----------------------------
(***************************************************************************)
(* Model of the pLp editor extension (src/src/extension.ts): activation,   *)
(* the process-file and process-folder commands, the construction of the   *)
(* interpreter's command line, and the handlers attached to the spawned    *)
(* child process.                                                          *)
(*                                                                         *)
(* Text is a sequence of tokens.  A token is one character, except for the *)
(* fixed texts "INFO:", "ERROR:", "Python Error: " ... which are kept as   *)
(* one token each.  Paths are sequences of one-character tokens.           *)
(***************************************************************************)
EXTENDS Integers, Sequences, FiniteSets, TLC

(***************************************************************************)
(* Bounds of the model.                                                    *)
(***************************************************************************)
MaxInvocations == 2
MaxLines == 2
MaxFiles == 2
MaxExitCode == 1

Inv == 1..MaxInvocations

(***************************************************************************)
(* Generic helpers on sequences.                                           *)
(***************************************************************************)
Range(s) == {s[k] : k \in DOMAIN s}

RECURSIVE Flatten(_)
Flatten(ss) == IF ss = <<>> THEN <<>> ELSE Head(ss) \o Flatten(Tail(ss))

StartsWith(s, t) == Len(s) >= Len(t) /\ SubSeq(s, 1, Len(t)) = t

(***************************************************************************)
(* String.prototype.trim: strips leading and trailing white space.         *)
(***************************************************************************)
IsWhite(c) == c \in {" ", "\n"}

RECURSIVE TrimStart(_)
TrimStart(s) ==
    IF s # <<>> /\ IsWhite(Head(s)) THEN TrimStart(Tail(s)) ELSE s

RECURSIVE TrimEnd(_)
TrimEnd(s) ==
    IF s # <<>> /\ IsWhite(s[Len(s)]) THEN TrimEnd(SubSeq(s, 1, Len(s) - 1)) ELSE s

Trim(s) == TrimEnd(TrimStart(s))

(***************************************************************************)
(* String.prototype.replace(pattern, by) with a string pattern: replaces   *)
(* the first occurrence of the token.                                      *)
(***************************************************************************)
RECURSIVE ReplaceFirst(_, _, _)
ReplaceFirst(s, tok, by) ==
    IF s = <<>> THEN <<>>
    ELSE IF Head(s) = tok THEN by \o Tail(s)
    ELSE <<Head(s)>> \o ReplaceFirst(Tail(s), tok, by)

(***************************************************************************)
(* Paths (node's posix `path` module and os.homedir).                      *)
(***************************************************************************)
HomeDir == <<"/", "h">>
Cwd == <<"/", "w">>
ExtensionPath == <<"/", "e">>

IsAbsolute(p) == p # <<>> /\ Head(p) = "/"

\* The segments between the "/" separators (empty segments included).
RECURSIVE SplitPath(_)
SplitPath(p) ==
    IF p = <<>> THEN << <<>> >>
    ELSE LET r == SplitPath(Tail(p))
         IN  IF Head(p) = "/" THEN << <<>> >> \o r
             ELSE << <<Head(p)>> \o Head(r) >> \o Tail(r)

\* Resolution of "." and ".." and of empty segments below the root.
RECURSIVE NormalizeSegs(_, _)
NormalizeSegs(segs, acc) ==
    IF segs = <<>> THEN acc
    ELSE LET s == Head(segs)
         IN  IF s = <<>> \/ s = <<".">> THEN NormalizeSegs(Tail(segs), acc)
             ELSE IF s = <<".", ".">>
                  THEN NormalizeSegs(Tail(segs),
                           IF acc = <<>> THEN acc ELSE SubSeq(acc, 1, Len(acc) - 1))
                  ELSE NormalizeSegs(Tail(segs), Append(acc, s))

RECURSIVE JoinAbs(_)
JoinAbs(segs) ==
    IF segs = <<>> THEN <<>> ELSE <<"/">> \o Head(segs) \o JoinAbs(Tail(segs))

\* path.resolve(p): p made absolute against the working directory, normalized.
PathResolve(p) ==
    LET full == IF IsAbsolute(p) THEN p ELSE Cwd \o <<"/">> \o p
        segs == NormalizeSegs(SplitPath(full), <<>>)
    IN  IF segs = <<>> THEN <<"/">> ELSE JoinAbs(segs)

\* path.join(a, b, ...): the parts joined by "/" and normalized.
PathJoin(a, b) ==
    LET segs == NormalizeSegs(SplitPath(a \o <<"/">> \o b), <<>>)
    IN  IF IsAbsolute(a) THEN (IF segs = <<>> THEN <<"/">> ELSE JoinAbs(segs))
        ELSE Tail(JoinAbs(segs))

\* Position of the last "/" of p, 0 when there is none.
LastSlash(p) ==
    LET S == {k \in DOMAIN p : p[k] = "/"}
    IN  IF S = {} THEN 0 ELSE CHOOSE k \in S : \A j \in S : j <= k

\* path.dirname(p), for a path without trailing separator.
PathDirname(p) ==
    LET k == LastSlash(p)
    IN  IF k = 0 THEN <<".">>
        ELSE IF k = 1 THEN <<"/">>
        ELSE SubSeq(p, 1, k - 1)


(***************************************************************************)
(* Settings (package.json, contributes.configuration) and the command's    *)
(* inputs.                                                                 *)
(***************************************************************************)
OutputPathSettings ==
    { <<>>, <<"~">>, <<"~", "/", "o">>, <<"~", "o">>, <<"/", "o">>, <<"o">>,
      <<".", ".", "/", "o">> }
ApiKeySettings == { <<>>, <<"k">> }
TemplatePathSettings == { <<>>, <<"~", "/", "t">> }
PythonPathSettings == { <<>>, <<"p", "3">> }

Configs ==
    [ outputPath : OutputPathSettings,
      openaiApiKey : ApiKeySettings,
      templatePath : TemplatePathSettings,
      pythonPath : PythonPathSettings,
      validateWritePermission : BOOLEAN ]

\* The defaults of package.json.
DefaultConfig ==
    [ outputPath |-> <<"~", "/", "o">>,
      openaiApiKey |-> <<>>,
      templatePath |-> <<"~", "/", "t">>,
      pythonPath |-> <<"p", "y">>,
      validateWritePermission |-> TRUE ]

\* uri.fsPath of the PDFs a user can pick: absolute, normalized paths.
PdfPaths == { <<"/", "d", "/", "f">>, <<"/", "f">> }

\* The command invoked from the palette carries no uri.
NoUri == <<>>

(***************************************************************************)
(* What the interpreter process writes.  A line of its standard output is  *)
(* an INFO: line, an ERROR: line or a diagnostic line; every line ends     *)
(* with a newline.                                                         *)
(***************************************************************************)
InfoLine == <<"INFO:", " ", "a">>
ErrorLine == <<"ERROR:", " ", "b">>
DiagLine == <<"x">>
LineKinds == {InfoLine, ErrorLine, DiagLine}

\* The sequences of at most n lines.
LineSeqs(n) == UNION {[1..k -> LineKinds] : k \in 0..n}

\* The character stream of a sequence of lines.
StreamOf(lines) == Flatten([k \in DOMAIN lines |-> lines[k] \o <<"\n">>])

\* What the interpreter may write on its standard error.
ErrStreams == { <<>>, <<"y", "\n">> }

\* Exit codes as the 'close' event reports them; "null" when a signal ended it.
ExitCodes == {ToString(n) : n \in 0..MaxExitCode} \cup {"null"}

VARIABLES
    activated,   \* activate() has run
    config,      \* the pdfProcessor.* settings
    pip,         \* the pip process of installPythonDeps
    cmd,         \* per invocation of pdfProcessor.processFile: handler position
    promise,     \* per invocation: the promise returned by processPDF
    child,       \* per invocation: the interpreter process and its pipes
    notes,       \* per invocation: notifications its handlers have shown
    bib,         \* the shared bibliography file: the parts appended so far
    folder,      \* the invocation of pdfProcessor.processFolder
    spawns,      \* calls of spawn(), per caller
    validated    \* output directories whose write permission was checked

vars == <<activated, config, pip, cmd, promise, child, notes, bib, folder,
          spawns, validated>>

NoChild ==
    [ pc |-> "none", file |-> <<>>, args |-> <<>>, lines |-> <<>>, out |-> <<>>,
      err |-> <<>>, code |-> "null", append |-> "no", lock |-> FALSE ]

NoPromise == [state |-> "none", reason |-> <<>>]

Note(kind, from, text) == [kind |-> kind, from |-> from, text |-> text]

(***************************************************************************)
(* processPDF, up to the spawn: the interpreter and its command line.      *)
(***************************************************************************)
\* path.join(context.extensionPath, 'src', 'python', 'pdf_processor.py');
\* "s/p" stands for src/python/pdf_processor.py.
PythonScript == PathJoin(ExtensionPath, <<"s", "/", "p">>)

\* processFile: config.get('outputPath') || path.dirname(uri.fsPath)
OutputPathFor(cfg, uri) ==
    IF cfg.outputPath # <<>> THEN cfg.outputPath ELSE PathDirname(uri)

\* Variant of ResolveOutputPath that leaves out path.resolve.
ResolveOutputPathUnresolved(outputPath) ==
    IF StartsWith(outputPath, <<"~">>)
    THEN ReplaceFirst(outputPath, "~", HomeDir)
    ELSE outputPath

\* processPDF: the leading '~' replaced by the home directory, then path.resolve.
ResolveOutputPath(outputPath) ==
    PathResolve(IF StartsWith(outputPath, <<"~">>)
                THEN ReplaceFirst(outputPath, "~", HomeDir)
                ELSE outputPath)

\* Variant of BuildArgs that pushes the template before the API key.
BuildArgsTemplateFirst(cfg, pdfPath, outputPath) ==
    << PythonScript, pdfPath, <<"-", "o">>, ResolveOutputPath(outputPath) >>
    \o (IF cfg.templatePath # <<>> THEN << <<"-", "t">>, cfg.templatePath >> ELSE <<>>)
    \o (IF cfg.openaiApiKey # <<>> THEN << <<"-", "k">>, cfg.openaiApiKey >> ELSE <<>>)

\* processPDF: the args array handed to spawn.
BuildArgs(cfg, pdfPath, outputPath) ==
    << PythonScript, pdfPath, <<"-", "o">>, ResolveOutputPath(outputPath) >>
    \o (IF cfg.openaiApiKey # <<>> THEN << <<"-", "k">>, cfg.openaiApiKey >> ELSE <<>>)
    \o (IF cfg.templatePath # <<>> THEN << <<"-", "t">>, cfg.templatePath >> ELSE <<>>)

\* processPDF: config.get('pythonPath') || 'python'
PythonFile(cfg) == IF cfg.pythonPath # <<>> THEN cfg.pythonPath ELSE <<"p", "y">>

(***************************************************************************)
(* The handlers processPDF attaches to the child process.                  *)
(***************************************************************************)
\* stdout 'data': the notifications shown for one chunk of data.
OnStdoutData(data) ==
    LET message == Trim(data)
    IN  IF StartsWith(message, <<"INFO:">>)
        THEN << Note("info", "stdout", Trim(ReplaceFirst(message, "INFO:", <<>>))) >>
        ELSE IF StartsWith(message, <<"ERROR:">>)
        THEN << Note("error", "stdout", Trim(ReplaceFirst(message, "ERROR:", <<>>))) >>
        ELSE <<>>

\* stderr 'data': the notification shown for one chunk of data.
OnStderrData(data) ==
    << Note("error", "stderr", <<"Python Error: ">> \o Trim(data)) >>

\* Variant of CloseResolves that tests `!code`, true of null as well.
CloseResolvesFalsy(code) == code \in {"0", "null"}

\* 'close': whether the promise is resolved (code === 0).
CloseResolves(code) == code = "0"

\* 'close': new Error(`Process failed with code ${code}`)
CloseError(code) == <<"Process failed with code ", code>>

\* `${error}` of an Error object.
ErrorToString(message) == <<"Error: ">> \o message

SuccessNote == Note("info", "close", <<"PDF processed successfully!">>)

\* processFile's catch: showErrorMessage(`Error: ${error}`)
CatchNote(reason) == Note("error", "catch", <<"Error: ">> \o ErrorToString(reason))

(***************************************************************************)
(* Initial state: the extension is installed and not yet activated.        *)
(***************************************************************************)
InitRest ==
    /\ activated = FALSE
    /\ pip = "none"
    /\ cmd = [i \in Inv |-> [pc |-> "idle", uri |-> NoUri]]
    /\ promise = [i \in Inv |-> NoPromise]
    /\ child = [i \in Inv |-> NoChild]
    /\ notes = [i \in Inv |-> <<>>]
    /\ bib = <<>>
    /\ folder = [pc |-> "idle", picked |-> FALSE, pdfs |-> 0]
    /\ spawns = [activate |-> 0, processFile |-> 0, processFolder |-> 0]
    /\ validated = {}

\* The user's settings are any of the configurations.
Init == config \in Configs /\ InitRest

\* The settings are the defaults of package.json.
DefaultInit == config = DefaultConfig /\ InitRest

(***************************************************************************)
(* activate: installPythonDeps spawns pip and returns; nothing waits for   *)
(* it or listens to it.  Then the commands are registered.                 *)
(***************************************************************************)
Activate ==
    /\ ~activated
    /\ activated' = TRUE
    /\ pip' = "running"
    /\ spawns' = [spawns EXCEPT !.activate = @ + 1]
    /\ UNCHANGED <<config, cmd, promise, child, notes, bib, folder, validated>>

\* The pip process ends; no handler observes it.
PipExit ==
    /\ pip = "running"
    /\ pip' = "exited"
    /\ UNCHANGED <<activated, config, cmd, promise, child, notes, bib, folder,
                   spawns, validated>>

(***************************************************************************)
(* pdfProcessor.processFile                                                *)
(***************************************************************************)
\* From the settings lookup to the await of processPDF: the command line is
\* built and the interpreter spawned.  The spawn starts the process, or fails
\* (no such executable) and the child emits 'error', for which processPDF
\* registers no listener: the emit throws inside the child's exit callback,
\* so that no 'close' follows and neither resolve nor reject is ever called.
StartProcessFile(i, uri) ==
    /\ \E started \in BOOLEAN :
         child' = [child EXCEPT ![i] =
                     [NoChild EXCEPT
                        !.pc = IF started THEN "running" ELSE "failed",
                        !.file = PythonFile(config),
                        !.args = BuildArgs(config, uri, OutputPathFor(config, uri))]]
    /\ promise' = [promise EXCEPT ![i] = [state |-> "pending", reason |-> <<>>]]
    /\ cmd' = [cmd EXCEPT ![i] = [pc |-> "awaiting", uri |-> uri]]
    /\ spawns' = [spawns EXCEPT !.processFile = @ + 1]
    /\ UNCHANGED <<activated, config, pip, notes, bib, folder, validated>>

\* The command is invoked, with the uri of the explorer's context menu or
\* without one (command palette), which opens the file dialog.
InvokeProcessFile(i, in) ==
    /\ activated
    /\ cmd[i].pc = "idle"
    /\ \A j \in 1..(i - 1) : cmd[j].pc # "idle"
    /\ \E uri \in in.uris \cup {NoUri} :
         IF uri = NoUri
         THEN /\ cmd' = [cmd EXCEPT ![i].pc = "dialog"]
              /\ UNCHANGED <<activated, config, pip, promise, child, notes, bib,
                             folder, spawns, validated>>
         ELSE StartProcessFile(i, uri)

\* showOpenDialog resolves with one PDF.
DialogPick(i, in) ==
    /\ cmd[i].pc = "dialog"
    /\ \E uri \in in.uris : StartProcessFile(i, uri)

\* showOpenDialog resolves with nothing: the handler returns.
DialogDismiss(i) ==
    /\ cmd[i].pc = "dialog"
    /\ cmd' = [cmd EXCEPT ![i].pc = "returned"]
    /\ UNCHANGED <<activated, config, pip, promise, child, notes, bib, folder,
                   spawns, validated>>

(***************************************************************************)
(* The interpreter process (src/python/pdf_processor.py, spawned at        *)
(* extension.ts:155).  Its append to the shared bibliography file follows  *)
(* the design of the pipeline: the record is appended under a process-wide *)
(* lock, that is, a lock of the interpreter process that appends, held for *)
(* the duration of the append.  The record reaches the file in two writes. *)
(***************************************************************************)
CoreAppendBegin(i) ==
    /\ child[i].pc = "running"
    /\ child[i].append = "no"
    /\ ~child[i].lock
    /\ child' = [child EXCEPT ![i].append = "partial", ![i].lock = TRUE]
    /\ bib' = Append(bib, <<i, "head">>)
    /\ UNCHANGED <<activated, config, pip, cmd, promise, notes, folder, spawns,
                   validated>>

CoreAppendEnd(i) ==
    /\ child[i].pc = "running"
    /\ child[i].append = "partial"
    /\ child' = [child EXCEPT ![i].append = "done", ![i].lock = FALSE]
    /\ bib' = Append(bib, <<i, "tail">>)
    /\ UNCHANGED <<activated, config, pip, cmd, promise, notes, folder, spawns,
                   validated>>

\* The process ends, having written `lines` on its standard output, possibly
\* something on its standard error, with some exit code.
ChildExit(i, in) ==
    /\ child[i].pc = "running"
    /\ child[i].append # "partial"
    /\ \E lines \in in.outs, e \in in.errs, c \in ExitCodes :
         child' = [child EXCEPT ![i].pc = "exited",
                                ![i].lines = lines,
                                ![i].out = StreamOf(lines),
                                ![i].err = e,
                                ![i].code = c]
    /\ UNCHANGED <<activated, config, pip, cmd, promise, notes, bib, folder,
                   spawns, validated>>

(***************************************************************************)
(* The events of the child process, as the handlers of processPDF see them.*)
(***************************************************************************)
\* stdout 'data': the pipe delivers the next chunk, of any length.
StdoutData(i) ==
    /\ child[i].pc = "exited"
    /\ child[i].out # <<>>
    /\ \E k \in 1..Len(child[i].out) :
         /\ notes' = [notes EXCEPT ![i] = @ \o OnStdoutData(SubSeq(child[i].out, 1, k))]
         /\ child' = [child EXCEPT ![i].out = SubSeq(@, k + 1, Len(@))]
    /\ UNCHANGED <<activated, config, pip, cmd, promise, bib, folder, spawns,
                   validated>>

\* stderr 'data'
StderrData(i) ==
    /\ child[i].pc = "exited"
    /\ child[i].err # <<>>
    /\ \E k \in 1..Len(child[i].err) :
         /\ notes' = [notes EXCEPT ![i] = @ \o OnStderrData(SubSeq(child[i].err, 1, k))]
         /\ child' = [child EXCEPT ![i].err = SubSeq(@, k + 1, Len(@))]
    /\ UNCHANGED <<activated, config, pip, cmd, promise, bib, folder, spawns,
                   validated>>

\* 'close': the process has ended and its pipes are drained.
ChildClose(i) ==
    /\ child[i].pc = "exited"
    /\ child[i].out = <<>>
    /\ child[i].err = <<>>
    /\ child' = [child EXCEPT ![i].pc = "closed"]
    /\ IF CloseResolves(child[i].code)
       THEN /\ notes' = [notes EXCEPT ![i] = Append(@, SuccessNote)]
            /\ promise' = [promise EXCEPT ![i] =
                             [state |-> "resolved", reason |-> <<>>]]
       ELSE /\ notes' = notes
            /\ promise' = [promise EXCEPT ![i] =
                             [state |-> "rejected",
                              reason |-> CloseError(child[i].code)]]
    /\ UNCHANGED <<activated, config, pip, cmd, bib, folder, spawns, validated>>

\* processFile resumes after `await processPDF(...)`: it returns, or its catch
\* shows the error.
AwaitResume(i) ==
    /\ cmd[i].pc = "awaiting"
    /\ promise[i].state \in {"resolved", "rejected"}
    /\ cmd' = [cmd EXCEPT ![i].pc = "returned"]
    /\ notes' = IF promise[i].state = "rejected"
                THEN [notes EXCEPT ![i] = Append(@, CatchNote(promise[i].reason))]
                ELSE notes
    /\ UNCHANGED <<activated, config, pip, promise, child, bib, folder, spawns,
                   validated>>

(***************************************************************************)
(* pdfProcessor.processFolder.  processPDFFolder has an empty body: the    *)
(* awaited call returns at once, whatever the folder holds.                *)
(***************************************************************************)
ProcessPDFFolder(n) ==
    /\ folder' = [pc |-> "returned", picked |-> TRUE, pdfs |-> n]
    /\ UNCHANGED <<activated, config, pip, cmd, promise, child, notes, bib,
                   spawns, validated>>

\* The command is invoked on a folder holding n PDFs, or without a uri.
InvokeProcessFolder ==
    /\ activated
    /\ folder.pc = "idle"
    /\ \/ \E n \in 0..MaxFiles : ProcessPDFFolder(n)
       \/ /\ folder' = [folder EXCEPT !.pc = "dialog"]
          /\ UNCHANGED <<activated, config, pip, cmd, promise, child, notes, bib,
                         spawns, validated>>

FolderDialogPick ==
    /\ folder.pc = "dialog"
    /\ \E n \in 0..MaxFiles : ProcessPDFFolder(n)

FolderDialogDismiss ==
    /\ folder.pc = "dialog"
    /\ folder' = [folder EXCEPT !.pc = "returned"]
    /\ UNCHANGED <<activated, config, pip, cmd, promise, child, notes, bib,
                   spawns, validated>>

(***************************************************************************)
(* Specifications.  Each one fixes the inputs it enumerates: the PDFs that *)
(* can be chosen (uris) and what the interpreter can write (outs, errs).   *)
(***************************************************************************)
\* The steps of invocation i of processFile and of its interpreter process.
InvocationStep(i, in) ==
    \/ InvokeProcessFile(i, in)
    \/ DialogPick(i, in)
    \/ DialogDismiss(i)
    \/ CoreAppendBegin(i)
    \/ CoreAppendEnd(i)
    \/ ChildExit(i, in)
    \/ StdoutData(i)
    \/ StderrData(i)
    \/ ChildClose(i)
    \/ AwaitResume(i)

Activation ==
    \/ Activate
    \/ PipExit

FolderStep ==
    \/ InvokeProcessFolder
    \/ FolderDialogPick
    \/ FolderDialogDismiss

\* Spec: one invocation of processFile under the default settings; the
\* interpreter writes any output of at most MaxLines lines.
AllOutputs ==
    [uris |-> PdfPaths, outs |-> LineSeqs(MaxLines), errs |-> ErrStreams]

Next == Activation \/ InvocationStep(1, AllOutputs)

Spec == DefaultInit /\ [][Next]_vars

\* ArgsSpec: one invocation of processFile under any settings; the
\* interpreter writes one INFO: line at most.
OneLine ==
    [uris |-> PdfPaths, outs |-> {<<>>, <<InfoLine>>}, errs |-> ErrStreams]

ArgsNext == Activation \/ InvocationStep(1, OneLine)

ArgsSpec == Init /\ [][ArgsNext]_vars

\* ConcSpec: up to MaxInvocations invocations of processFile in flight together
\* under the default settings.
OnePdf ==
    [uris |-> {<<"/", "f">>}, outs |-> {<<InfoLine>>}, errs |-> ErrStreams]

ConcNext == Activation \/ \E i \in Inv : InvocationStep(i, OnePdf)

ConcSpec == DefaultInit /\ [][ConcNext]_vars

\* FolderSpec: the processFolder command under any settings.
FolderNext == Activation \/ FolderStep

FolderSpec == Init /\ [][FolderNext]_vars

\* FairSpec: Spec, where every step of the invocation that stays possible is
\* eventually taken: the dialog is answered, the interpreter runs on and
\* ends, the event loop delivers the events of the child and resumes the
\* awaiting handler.
FairSpec == Spec /\ WF_vars(InvocationStep(1, AllOutputs))

(***************************************************************************)
(* Properties.                                                             *)
(***************************************************************************)
Spawned(i) == child[i].pc # "none"

Closed(i) == child[i].pc = "closed"

NotesFrom(i, from) == SelectSeq(notes[i], LAMBDA n : n.from = from)

\* The notification a line of the output calls for: none for a diagnostic
\* line, else one of the line's kind with the text after the prefix.
ExpectedNotes(line) ==
    IF Head(line) = "INFO:" THEN << Note("info", "stdout", SubSeq(line, 3, Len(line))) >>
    ELSE IF Head(line) = "ERROR:" THEN << Note("error", "stdout", SubSeq(line, 3, Len(line))) >>
    ELSE <<>>

\* C1: once the child has closed, the notifications shown for its standard
\* output are, in order, exactly one per INFO:/ERROR: line it wrote, each
\* with that line's message, however the lines were grouped into chunks.
C1_EveryLineSurfacedVerbatim ==
    \A i \in Inv :
        Closed(i) =>
            NotesFrom(i, "stdout") =
                Flatten([k \in DOMAIN child[i].lines |-> ExpectedNotes(child[i].lines[k])])

\* C2: the text of a diagnostic line of the standard output (such a line is
\* made of "x", which no INFO:/ERROR: line holds) never appears in a
\* notification.
C2_DiagnosticLinesIgnored ==
    \A i \in Inv : \A k \in DOMAIN notes[i] : "x" \notin Range(notes[i][k].text)

Count(seq, v) == Cardinality({k \in DOMAIN seq : seq[k] = v})

\* C3: the command line of every spawned interpreter is
\* <script> <pdfPath> -o <outputDir> [-k <apiKey>] [-t <templatePath>]:
\* -k with the key exactly when a key is configured, -t with the template
\* exactly when a template is configured, in that order, and nothing else.
C3_CommandLineShape ==
    \A i \in Inv :
        Spawned(i) =>
            LET a == child[i].args
                hasK == config.openaiApiKey # <<>>
                hasT == config.templatePath # <<>>
                tAt == IF hasK THEN 7 ELSE 5
            IN  /\ Len(a) = 4 + (IF hasK THEN 2 ELSE 0) + (IF hasT THEN 2 ELSE 0)
                /\ a[1] = <<"/", "e", "/", "s", "/", "p">>
                /\ a[2] = cmd[i].uri
                /\ a[3] = <<"-", "o">>
                /\ Count(a, <<"-", "o">>) = 1
                /\ Count(a, <<"-", "k">>) = (IF hasK THEN 1 ELSE 0)
                /\ Count(a, <<"-", "t">>) = (IF hasT THEN 1 ELSE 0)
                /\ hasK => a[5] = <<"-", "k">> /\ a[6] = config.openaiApiKey
                /\ hasT => a[tAt] = <<"-", "t">> /\ a[tAt + 1] = config.templatePath

C3_Witness ==
    \E i \in Inv :
        /\ Spawned(i)
        /\ config.openaiApiKey # <<>>
        /\ config.templatePath # <<>>
        /\ Len(child[i].args) = 8

\* C4: a child closed with code 0 has resolved the promise and shown the
\* success notification once, and the command shows no error of its own;
\* a child closed with another code has rejected the promise with
\* 'Process failed with code <code>' and shown no success notification, and
\* the command, once resumed, has shown exactly that one error.
C4_OutcomeByExitCode ==
    \A i \in Inv :
        Closed(i) =>
            LET returned == cmd[i].pc = "returned"
                code == child[i].code
            IN  IF code = "0"
                THEN /\ promise[i].state = "resolved"
                     /\ NotesFrom(i, "close") =
                          << Note("info", "close", <<"PDF processed successfully!">>) >>
                     /\ NotesFrom(i, "catch") = <<>>
                ELSE /\ promise[i].state = "rejected"
                     /\ promise[i].reason = <<"Process failed with code ", code>>
                     /\ NotesFrom(i, "close") = <<>>
                     /\ NotesFrom(i, "catch") =
                          IF returned
                          THEN << Note("error", "catch",
                                       <<"Error: ", "Error: ",
                                         "Process failed with code ", code>>) >>
                          ELSE <<>>

\* A run that reported an ERROR: line, closed with code 0 and returned.
C4_Witness ==
    \E i \in Inv :
        /\ Closed(i)
        /\ cmd[i].pc = "returned"
        /\ child[i].code = "0"
        /\ \E k \in DOMAIN notes[i] :
             notes[i][k].from = "stdout" /\ notes[i][k].kind = "error"
        /\ promise[i].state = "resolved"

\* C5: the folder command, returned from a folder of n PDFs, has run the
\* single-file pipeline n times.
C5_FolderRunsEveryFile ==
    (folder.pc = "returned" /\ folder.picked) => spawns.processFolder = folder.pdfs

\* C6: at most one pipeline run is appending to the bibliography file at any
\* instant, so that the two parts of a record are never separated by a part
\* of another run's record.
C6_SingleWriter ==
    /\ Cardinality({i \in Inv : child[i].append = "partial"}) <= 1
    /\ \A k \in DOMAIN bib :
         bib[k][2] = "tail" => (k > 1 /\ bib[k - 1] = <<bib[k][1], "head">>)

\* C7: with validateWritePermission enabled, no interpreter is spawned before
\* write permission on its output directory has been validated.
C7_ValidatedBeforeSpawn ==
    \A i \in Inv :
        (Spawned(i) /\ config.validateWritePermission) => child[i].args[4] \in validated

Segments(p) == SplitPath(Tail(p))

\* C8: the value after -o is absolute and resolved, never begins with "~";
\* it is the configured outputPath (its leading "~" replaced by the home
\* directory, a relative one taken below the working directory), and the
\* directory holding the PDF when no outputPath is configured.
C8_OutputDirResolved ==
    \A i \in Inv :
        Spawned(i) =>
            LET o == child[i].args[4]
                c == config.outputPath
                uri == cmd[i].uri
            IN  /\ o # <<>> /\ Head(o) = "/"
                /\ o # <<"/">> =>
                     \A k \in DOMAIN Segments(o) :
                         Segments(o)[k] \notin { <<>>, <<".">>, <<".", ".">> }
                /\ c = <<>> =>
                     \E k \in 1..Len(uri) :
                         /\ uri[k] = "/"
                         /\ \A j \in (k + 1)..Len(uri) : uri[j] # "/"
                         /\ o = IF k = 1 THEN <<"/">> ELSE SubSeq(uri, 1, k - 1)
                /\ c = <<"/", "o">> => o = c
                /\ (c # <<>> /\ Head(c) = "~") => o = <<"/", "h">> \o Tail(c)
                /\ c = <<"o">> => o = <<"/", "w", "/", "o">>
                /\ c = <<".", ".", "/", "o">> => o = <<"/", "o">>

C8_Witness ==
    \E i \in Inv :
        /\ Spawned(i)
        /\ config.outputPath = <<"~", "/", "o">>
        /\ child[i].args[4] = <<"/", "h", "/", "o">>

\* C9: no interpreter is spawned before the dependency installation started
\* at activation has completed.
C9_DepsInstalledBeforeUse ==
    \A i \in Inv : Spawned(i) => pip = "exited"

\* C10: every invocation that has chosen a PDF and awaits processPDF
\* eventually returns.
C10_InvocationFinishes ==
    \A i \in Inv : (cmd[i].pc = "awaiting") ~> (cmd[i].pc = "returned")

=============================================================================
